---- MODULE Spec2Model ----
(***************************************************************************)
(* Model of sysvars/sysvars_gce.go: one collection pass of gceVars over    *)
(* the variable table, with every metadata / management-API lookup as one  *)
(* step whose outcome is chosen by the environment.                        *)
(*                                                                         *)
(* Strings whose characters matter (table values) are sequences of         *)
(* one-character strings; table keys and lookup names are TLA+ strings.    *)
(***************************************************************************)
EXTENDS Integers, Sequences, FiniteSets, TLC

VARIABLES
    pc,          \* position of the pass in gceVars / addGceNicInfo
    vars,        \* the variable table (map[string]string), filled in place
    vars0,       \* the table as it was passed in
    onGCE,       \* first return value of gceVars (meaningful when pc = "done")
    err,         \* second return value of gceVars ("nil" or the failing item)
    calls,       \* every external lookup attempted so far, in order, with outcome
    pending,     \* keys of metadataFuncs not yet visited by the range loop
    fi,          \* index into Fields of the field loop (lines 89-133)
    i,           \* slot index of the loop in addGceNicInfo
    nicMd,       \* what the metadata server holds for each NIC slot
    labels,      \* the map returned by labelsFromGCE
    pendingLabels \* keys of labels not yet visited by the range loop

allVars == <<pc, vars, vars0, onGCE, err, calls, pending, fi, i, nicMd, labels, pendingLabels>>

(***************************************************************************)
(* Bounds and program constants                                            *)
(***************************************************************************)
\* number of distinct label keys an instance may carry in the model
MaxLabels == 2

\* var maxNICs = 8
maxNICs == 8

NoErr == "nil"

\* the literal "undefined" (lines 112, 121)
Undefined == <<"u", "n", "d", "e", "f", "i", "n", "e", "d">>

(***************************************************************************)
(* Go string helpers, on sequences of characters                           *)
(***************************************************************************)
RECURSIVE SplitFrom(_, _, _)
\* strings.Split(s, sep) for a one-character sep: cur is the token being read
SplitFrom(s, sep, cur) ==
    IF s = <<>> THEN <<cur>>
    ELSE IF Head(s) = sep THEN <<cur>> \o SplitFrom(Tail(s), sep, <<>>)
    ELSE SplitFrom(Tail(s), sep, Append(cur, Head(s)))

Split(s, sep) == SplitFrom(s, sep, <<>>)

RECURSIVE Join(_, _)
\* strings.Join(parts, sep)
Join(parts, sep) ==
    IF parts = <<>> THEN <<>>
    ELSE IF Len(parts) = 1 THEN parts[1]
    ELSE parts[1] \o <<sep>> \o Join(Tail(parts), sep)

\* getLastToken := func(value string) string  (lines 84-87)
getLastToken(value) ==
    LET tokens == Split(value, "/") IN tokens[Len(tokens)]

\* faulty variant: keeps only the first hyphen-delimited token
RegionOf_FirstToken(zone) == Split(zone, "-")[1]

\* zoneParts := strings.Split(zone, "-"); strings.Join(zoneParts[0:len-1], "-")
RegionOf(zone) ==
    LET zoneParts == Split(zone, "-")
    IN  Join(SubSeq(zoneParts, 1, Len(zoneParts) - 1), "-")

IsSpace(c) == c \in {" ", "\t", "\n", "\r"}

RECURSIVE TrimLeft(_)
TrimLeft(s) == IF s # <<>> /\ IsSpace(Head(s)) THEN TrimLeft(Tail(s)) ELSE s

RECURSIVE TrimRight(_)
TrimRight(s) ==
    IF s # <<>> /\ IsSpace(s[Len(s)]) THEN TrimRight(SubSeq(s, 1, Len(s) - 1)) ELSE s

\* strings.TrimSpace
TrimSpace(s) == TrimRight(TrimLeft(s))

\* decimal rendering of a slot index (%v / %d of fmt.Sprintf)
Itoa(n) == <<"0", "1", "2", "3", "4", "5", "6", "7", "8", "9">>[n + 1]

\* fmt.Sprintf("instance/network-interfaces/%v/ip", i)
NicIpPath(n) == "instance/network-interfaces/" \o Itoa(n) \o "/ip"
\* fmt.Sprintf("nic_%d_ip", i)
NicIpKey(n) == "nic_" \o Itoa(n) \o "_ip"
\* fmt.Sprintf("instance/network-interfaces/%v/ipv6s", i)
NicIpv6Path(n) == "instance/network-interfaces/" \o Itoa(n) \o "/ipv6s"

\* "label_" + k
LabelKey(k) == "label_" \o k

(***************************************************************************)
(* The variable table                                                      *)
(***************************************************************************)
EmptyTable == [k \in {} |-> <<>>]

\* vars[k] = v
Put(t, k, v) == [x \in DOMAIN t \cup {k} |-> IF x = k THEN v ELSE t[x]]

Has(t, k) == k \in DOMAIN t

(***************************************************************************)
(* What the environment may answer                                         *)
(***************************************************************************)
\* one lookup: what was asked, whether it succeeded, the string it returned
Call(name, ok, v) == [name |-> name, ok |-> ok, v |-> v]
None == <<>>

\* metadataFuncs (lines 36-40)
metadataFuncs == {"project", "project_id", "instance_id"}

IdentityValue(k) ==
    CASE k = "project"     -> <<"p", "r", "j">>
      [] k = "project_id"  -> <<"4", "2">>
      [] k = "instance_id" -> <<"7", "7">>

NamespaceValues == {<<"d", "e", "f">>}
InstanceNames   == {<<"v", "m", "1">>}
\* os.Getenv returns "" when the variable is unset
HostnameValues  == {<<"h", "o", "s", "t">>, <<>>}

ZoneValues ==
    { <<"u","s","-","c","e","n","t","r","a","l","1","-","a">>,
      <<"a","-","b","-","c","-","d">>,
      <<"z","o","n","e">>,
      <<"a","-">> }

IpValues == {<<"1", "0", ".", "0", ".", "0", ".", "2">>}

\* projects/<n>/global/instanceTemplates/<name>, and a value with no slash
TemplateValues ==
    { <<"p","/","g","/","t","/","t","m","p","l">>, <<"b","a","r","e">> }
\* projects/<n>/machineTypes/<type>
MachineValues == { <<"p","/","m","/","e","2">> }

\* the order of the field loop (lines 89-95); every key has a case in the
\* switch, so its default branch (lines 126-127) cannot be taken
Fields == <<"zone", "internal_ip", "external_ip", "instance_template", "machine_type">>

\* raw instance/network-interfaces/<i>/ipv6s values
Ipv6Values(n) ==
    IF n = 0
    THEN { <<" ", "f", "e", ":", ":", "1", "\n">>, <<"f", "d", ":", ":", "2">>, <<" ", " ">> }
    ELSE { <<"f", "d", ":", ":", Itoa(n), "\n">> }

NicIpValue(n) == <<"1", "0", ".", "0", ".", Itoa(n)>>

Slots == 0 .. (maxNICs - 1)

\* per slot: no primary IP, primary IP only, primary IP and IPv6
SlotKinds == {"absent", "v4", "dual"}

AllNicLayouts == [Slots -> SlotKinds]

LayoutOf(v4, dual) ==
    [n \in Slots |-> IF n \in dual THEN "dual" ELSE IF n \in v4 THEN "v4" ELSE "absent"]

\* the layouts a whole pass is run against
NicLayouts ==
    { LayoutOf({}, {}), LayoutOf({0}, {}), LayoutOf({2}, {0}),
      LayoutOf({1}, {3}), LayoutOf({0, 1}, {7}) }

LabelNames == <<"env", "team", "tier">>
LabelValue(k) ==
    CASE k = "env" -> <<"p", "r", "o", "d">>
      [] k = "team" -> <<"s", "r", "e">>
      [] OTHER -> <<"1">>

\* i.Labels: any label map over the first MaxLabels label names
LabelMaps ==
    { [k \in S |-> LabelValue(k)] :
        S \in SUBSET { LabelNames[n] : n \in 1 .. MaxLabels } }

\* tables the caller passes in: empty, or already holding its own variables
InitTables == { EmptyTable, [k \in {"hostname"} |-> <<"h">>] }

(***************************************************************************)
(* Init                                                                    *)
(***************************************************************************)
InitCommon ==
    /\ vars0 \in InitTables
    /\ vars = vars0
    /\ onGCE = FALSE
    /\ err = NoErr
    /\ calls = <<>>
    /\ pending = metadataFuncs
    /\ fi = 1
    /\ i = 0
    /\ labels = EmptyTable
    /\ pendingLabels = {}

Init ==
    /\ InitCommon
    /\ pc = "start"
    /\ nicMd \in NicLayouts

\* addGceNicInfo called on its own
InitNic ==
    /\ InitCommon
    /\ pc = "nic"
    /\ nicMd \in AllNicLayouts

(***************************************************************************)
(* gceVars                                                                 *)
(***************************************************************************)
\* return onGCE, e
Return(flag, e) ==
    /\ pc' = "done"
    /\ onGCE' = flag
    /\ err' = e

\* faulty variant: the result of the platform probe is not looked at
CheckOnGCE_IgnoresProbe ==
    /\ pc = "start"
    /\ \E on \in BOOLEAN :
        /\ calls' = Append(calls, Call("OnGCE", on, None))
        /\ pc' = "common"
        /\ onGCE' = on
        /\ err' = err
    /\ UNCHANGED <<vars, vars0, pending, fi, i, nicMd, labels, pendingLabels>>

\* lines 54-57
CheckOnGCE ==
    /\ pc = "start"
    /\ \E on \in BOOLEAN :
        /\ calls' = Append(calls, Call("OnGCE", on, None))
        /\ IF ~on
           THEN Return(FALSE, NoErr)
           ELSE /\ pc' = "common"
                /\ onGCE' = TRUE
                /\ err' = err
    /\ UNCHANGED <<vars, vars0, pending, fi, i, nicMd, labels, pendingLabels>>

\* commonGCEGKEVars, one iteration of the range loop (lines 42-48), and the
\* caller's check of its result (lines 59-61)
CommonGCEGKEVarsStep ==
    /\ pc = "common"
    /\ \E k \in pending, ok \in BOOLEAN :
        /\ calls' = Append(calls, Call(k, ok, IF ok THEN IdentityValue(k) ELSE None))
        /\ IF ~ok
           THEN /\ Return(onGCE, k)
                /\ UNCHANGED <<vars, pending>>
           ELSE /\ vars' = Put(vars, k, IdentityValue(k))
                /\ pending' = pending \ {k}
                /\ pc' = IF pending' = {} THEN "k8s" ELSE "common"
                /\ UNCHANGED <<onGCE, err>>
    /\ UNCHANGED <<vars0, fi, i, nicMd, labels, pendingLabels>>

\* faulty variant: namespace is written but the pass does not return
CheckKubernetes_FallsThrough ==
    /\ pc = "k8s"
    /\ \E k8s \in BOOLEAN :
        IF k8s
        THEN \E ns \in NamespaceValues :
                /\ calls' = calls \o <<Call("IsKubernetes", TRUE, None), Call("KubernetesNamespace", TRUE, ns)>>
                /\ vars' = Put(vars, "namespace", ns)
        ELSE /\ calls' = Append(calls, Call("IsKubernetes", FALSE, None))
             /\ UNCHANGED vars
    /\ pc' = "name"
    /\ UNCHANGED <<onGCE, err, vars0, pending, fi, i, nicMd, labels, pendingLabels>>

\* lines 66-71
CheckKubernetes ==
    /\ pc = "k8s"
    /\ \E k8s \in BOOLEAN :
        IF k8s
        THEN \E ns \in NamespaceValues :
                /\ calls' = calls \o <<Call("IsKubernetes", TRUE, None), Call("KubernetesNamespace", TRUE, ns)>>
                /\ vars' = Put(vars, "namespace", ns)
                /\ Return(onGCE, NoErr)
        ELSE /\ calls' = Append(calls, Call("IsKubernetes", FALSE, None))
             /\ pc' = "name"
             /\ UNCHANGED <<vars, onGCE, err>>
    /\ UNCHANGED <<vars0, pending, fi, i, nicMd, labels, pendingLabels>>

\* faulty variant: after the HOSTNAME fallback the pass goes on to the fields
GetInstanceName_FallsThrough ==
    /\ pc = "name"
    /\ \/ \E h \in HostnameValues :
            /\ calls' = calls \o <<Call("instance", FALSE, None), Call("HOSTNAME", TRUE, h)>>
            /\ vars' = Put(vars, "instance", h)
       \/ \E v \in InstanceNames :
            /\ calls' = Append(calls, Call("instance", TRUE, v))
            /\ vars' = Put(vars, "instance", v)
    /\ pc' = "fields"
    /\ UNCHANGED <<onGCE, err, vars0, pending, fi, i, nicMd, labels, pendingLabels>>

\* lines 75-81
GetInstanceName ==
    /\ pc = "name"
    /\ \/ \E h \in HostnameValues :
            /\ calls' = calls \o <<Call("instance", FALSE, None), Call("HOSTNAME", TRUE, h)>>
            /\ vars' = Put(vars, "instance", h)
            /\ Return(onGCE, NoErr)
       \/ \E v \in InstanceNames :
            /\ calls' = Append(calls, Call("instance", TRUE, v))
            /\ vars' = Put(vars, "instance", v)
            /\ pc' = "fields"
            /\ UNCHANGED <<onGCE, err>>
    /\ UNCHANGED <<vars0, pending, fi, i, nicMd, labels, pendingLabels>>

\* faulty variant: the value is stored before the error is looked at
FieldResult_WritesBeforeCheck(k, ok, raw, v) ==
    /\ calls' = Append(calls, Call(k, ok, raw))
    /\ vars' = Put(vars, k, v)
    /\ IF ~ok
       THEN /\ Return(onGCE, k)
            /\ UNCHANGED fi
       ELSE /\ fi' = fi + 1
            /\ pc' = IF fi = Len(Fields) THEN "region" ELSE "fields"
            /\ UNCHANGED <<onGCE, err>>
    /\ UNCHANGED <<vars0, pending, i, nicMd, labels, pendingLabels>>

\* lines 129-133: the tail of one iteration of the field loop
FieldResult(k, ok, raw, v) ==
    /\ calls' = Append(calls, Call(k, ok, raw))
    /\ IF ~ok
       THEN /\ Return(onGCE, k)
            /\ UNCHANGED <<vars, fi>>
       ELSE /\ vars' = Put(vars, k, v)
            /\ fi' = fi + 1
            /\ pc' = IF fi = Len(Fields) THEN "region" ELSE "fields"
            /\ UNCHANGED <<onGCE, err>>
    /\ UNCHANGED <<vars0, pending, i, nicMd, labels, pendingLabels>>

\* a mandatory field: case "zone" / "internal_ip" / "external_ip"
MandatoryField(k, values) ==
    /\ pc = "fields"
    /\ Fields[fi] = k
    /\ \/ FieldResult(k, FALSE, None, None)
       \/ \E v \in values : FieldResult(k, TRUE, v, v)

\* faulty variant: a failed lookup is returned as an error, as for "zone"
DefaultedField_Fatal(k, values) ==
    /\ pc = "fields"
    /\ Fields[fi] = k
    /\ \/ FieldResult(k, FALSE, None, None)
       \/ \E v \in values : FieldResult(k, TRUE, v, getLastToken(v))

\* a field with a default: case "instance_template" / "machine_type"
DefaultedField(k, values) ==
    /\ pc = "fields"
    /\ Fields[fi] = k
    /\ \/ /\ calls' = Append(calls, Call(k, FALSE, None))
          /\ vars' = Put(vars, k, Undefined)
          /\ fi' = fi + 1
          /\ pc' = IF fi = Len(Fields) THEN "region" ELSE "fields"
          /\ UNCHANGED <<onGCE, err, vars0, pending, i, nicMd, labels, pendingLabels>>
       \/ \E v \in values : FieldResult(k, TRUE, v, getLastToken(v))

\* lines 99-100
GetZone == MandatoryField("zone", ZoneValues)
\* lines 101-102
GetInternalIP == MandatoryField("internal_ip", IpValues)
\* lines 103-104
GetExternalIP == MandatoryField("external_ip", IpValues)
\* lines 105-116
GetInstanceTemplate == DefaultedField("instance_template", TemplateValues)
\* lines 117-125
GetMachineType == DefaultedField("machine_type", MachineValues)

\* lines 135-137: derive region, enter addGceNicInfo
DeriveRegion ==
    /\ pc = "region"
    /\ vars' = Put(vars, "region", RegionOf(IF Has(vars, "zone") THEN vars["zone"] ELSE <<>>))
    /\ pc' = "nic"
    /\ i' = 0
    /\ UNCHANGED <<vars0, onGCE, err, calls, pending, fi, nicMd, labels, pendingLabels>>

(***************************************************************************)
(* addGceNicInfo                                                           *)
(***************************************************************************)
\* faulty variant: the first missing slot ends the enumeration (break)
NicProbeIp_BreaksOnMiss ==
    /\ pc = "nic"
    /\ i < maxNICs
    /\ IF nicMd[i] = "absent"
       THEN /\ calls' = Append(calls, Call(NicIpPath(i), FALSE, None))
            /\ i' = maxNICs
            /\ UNCHANGED <<pc, vars>>
       ELSE /\ calls' = Append(calls, Call(NicIpPath(i), TRUE, NicIpValue(i)))
            /\ vars' = Put(vars, NicIpKey(i), NicIpValue(i))
            /\ pc' = "nic6"
            /\ i' = i
    /\ UNCHANGED <<vars0, onGCE, err, pending, fi, nicMd, labels, pendingLabels>>

\* lines 183-190: the primary-IP lookup of slot i
NicProbeIp ==
    /\ pc = "nic"
    /\ i < maxNICs
    /\ IF nicMd[i] = "absent"
       THEN /\ calls' = Append(calls, Call(NicIpPath(i), FALSE, None))
            /\ i' = i + 1
            /\ UNCHANGED <<pc, vars>>
       ELSE /\ calls' = Append(calls, Call(NicIpPath(i), TRUE, NicIpValue(i)))
            /\ vars' = Put(vars, NicIpKey(i), NicIpValue(i))
            /\ pc' = "nic6"
            /\ i' = i
    /\ UNCHANGED <<vars0, onGCE, err, pending, fi, nicMd, labels, pendingLabels>>

\* faulty variant: the alias is written for every slot, not only slot 0
NicProbeIpv6_AliasesEverySlot ==
    /\ pc = "nic6"
    /\ IF nicMd[i] # "dual"
       THEN /\ calls' = Append(calls, Call(NicIpv6Path(i), FALSE, None))
            /\ UNCHANGED vars
       ELSE \E raw \in Ipv6Values(i) :
            LET v == TrimSpace(raw)
                t == Put(vars, NicIpv6Path(i), v)
            IN  /\ calls' = Append(calls, Call(NicIpv6Path(i), TRUE, raw))
                /\ vars' = Put(t, "internal_ipv6_ip", v)
    /\ i' = i + 1
    /\ pc' = "nic"
    /\ UNCHANGED <<vars0, onGCE, err, pending, fi, nicMd, labels, pendingLabels>>

\* lines 192-202: the IPv6 lookup of slot i
NicProbeIpv6 ==
    /\ pc = "nic6"
    /\ IF nicMd[i] # "dual"
       THEN /\ calls' = Append(calls, Call(NicIpv6Path(i), FALSE, None))
            /\ UNCHANGED vars
       ELSE \E raw \in Ipv6Values(i) :
            LET v == TrimSpace(raw)
                t == Put(vars, NicIpv6Path(i), v)
            IN  /\ calls' = Append(calls, Call(NicIpv6Path(i), TRUE, raw))
                /\ vars' = IF i = 0 THEN Put(t, "internal_ipv6_ip", v) ELSE t
    /\ i' = i + 1
    /\ pc' = "nic"
    /\ UNCHANGED <<vars0, onGCE, err, pending, fi, nicMd, labels, pendingLabels>>

\* the loop condition fails: addGceNicInfo returns (nothing)
NicReturn ==
    /\ pc = "nic"
    /\ i >= maxNICs
    /\ pc' = "newservice"
    /\ UNCHANGED <<vars, vars0, onGCE, err, calls, pending, fi, i, nicMd, labels, pendingLabels>>

(***************************************************************************)
(* labelsFromGCE and the merge of its result                               *)
(***************************************************************************)
\* faulty variant: the table is put back as it was passed in before the error return
NewService_RollsBack ==
    /\ pc = "newservice"
    /\ \E ok \in BOOLEAN :
        /\ calls' = Append(calls, Call("compute.NewService", ok, None))
        /\ IF ~ok
           THEN /\ Return(onGCE, "compute service")
                /\ vars' = vars0
           ELSE /\ pc' = "get"
                /\ UNCHANGED <<onGCE, err, vars>>
    /\ UNCHANGED <<vars0, pending, fi, i, nicMd, labels, pendingLabels>>

\* lines 155-158, and the caller's check (lines 140-142)
NewService ==
    /\ pc = "newservice"
    /\ \E ok \in BOOLEAN :
        /\ calls' = Append(calls, Call("compute.NewService", ok, None))
        /\ IF ~ok
           THEN Return(onGCE, "compute service")
           ELSE /\ pc' = "get"
                /\ UNCHANGED <<onGCE, err>>
    /\ UNCHANGED <<vars, vars0, pending, fi, i, nicMd, labels, pendingLabels>>

\* faulty variant: a failed Instances.Get is returned as an error
InstancesGet_Fatal ==
    /\ pc = "get"
    /\ \/ /\ calls' = Append(calls, Call("Instances.Get", FALSE, None))
          /\ labels' = EmptyTable
          /\ Return(onGCE, "instance labels")
       \/ /\ calls' = Append(calls, Call("Instances.Get", TRUE, None))
          /\ labels' \in LabelMaps
          /\ pc' = "merge"
          /\ UNCHANGED <<onGCE, err>>
    /\ pendingLabels' = DOMAIN labels'
    /\ UNCHANGED <<vars, vars0, pending, fi, i, nicMd>>

\* lines 162-168
InstancesGet ==
    /\ pc = "get"
    /\ \/ /\ calls' = Append(calls, Call("Instances.Get", FALSE, None))
          /\ labels' = EmptyTable
       \/ /\ calls' = Append(calls, Call("Instances.Get", TRUE, None))
          /\ labels' \in LabelMaps
    /\ pendingLabels' = DOMAIN labels'
    /\ pc' = "merge"
    /\ UNCHANGED <<vars, vars0, onGCE, err, pending, fi, i, nicMd>>

\* lines 144-149: one iteration of the range loop over labels
MergeLabel ==
    /\ pc = "merge"
    /\ \E k \in pendingLabels :
        /\ vars' = Put(vars, LabelKey(k), labels[k])
        /\ pendingLabels' = pendingLabels \ {k}
    /\ UNCHANGED <<pc, vars0, onGCE, err, calls, pending, fi, i, nicMd, labels>>

\* line 150
ReturnOK ==
    /\ pc = "merge"
    /\ pendingLabels = {}
    /\ Return(onGCE, NoErr)
    /\ UNCHANGED <<vars, vars0, calls, pending, fi, i, nicMd, labels, pendingLabels>>

Next ==
    \/ CheckOnGCE
    \/ CommonGCEGKEVarsStep
    \/ CheckKubernetes
    \/ GetInstanceName
    \/ GetZone
    \/ GetInternalIP
    \/ GetExternalIP
    \/ GetInstanceTemplate
    \/ GetMachineType
    \/ DeriveRegion
    \/ NicProbeIp
    \/ NicProbeIpv6
    \/ NicReturn
    \/ NewService
    \/ InstancesGet
    \/ MergeLabel
    \/ ReturnOK

Spec == Init /\ [][Next]_allVars

NextNic ==
    \/ NicProbeIp
    \/ NicProbeIpv6
    \/ NicReturn

SpecNic == InitNic /\ [][NextNic]_allVars

(***************************************************************************)
(* Reading the call log                                                    *)
(***************************************************************************)
Attempted(name) == \E n \in 1 .. Len(calls) : calls[n].name = name
Succeeded(name) == \E n \in 1 .. Len(calls) : calls[n].name = name /\ calls[n].ok
Failed(name)    == \E n \in 1 .. Len(calls) : calls[n].name = name /\ ~calls[n].ok
\* the string the (only) successful lookup of name returned
Answer(name) ==
    calls[CHOOSE n \in 1 .. Len(calls) : calls[n].name = name /\ calls[n].ok].v
LastCall == calls[Len(calls)].name

IdentityLookups == {"OnGCE", "project", "project_id", "instance_id"}
NicLookups == { NicIpPath(n) : n \in Slots } \cup { NicIpv6Path(n) : n \in Slots }
LabelLookups == {"compute.NewService", "Instances.Get"}
FieldLookups == { Fields[n] : n \in 1 .. Len(Fields) }

(***************************************************************************)
(* C1. As claimed: after a failed instance-name lookup the pass sets       *)
(* 'instance' from HOSTNAME and still looks up zone, internal_ip,          *)
(* external_ip, instance_template and machine_type before it returns.      *)
(***************************************************************************)
C1_ContinuesAfterNameFailure ==
    (pc = "done" /\ Failed("instance")) =>
        /\ Has(vars, "instance")
        /\ vars["instance"] = Answer("HOSTNAME")
        /\ \A k \in FieldLookups : Attempted(k)

(***************************************************************************)
(* C1, amended. After a failed instance-name lookup the pass sets          *)
(* 'instance' from HOSTNAME and returns (true, no error) at once: no       *)
(* field, NIC or label lookup is made, and the table holds what was passed *)
(* in, the three identity keys and 'instance', nothing else.               *)
(***************************************************************************)
C1_NameFailureExitsEarly ==
    Failed("instance") =>
        /\ pc = "done" /\ onGCE /\ err = NoErr
        /\ LastCall = "HOSTNAME"
        /\ vars["instance"] = Answer("HOSTNAME")
        /\ \A k \in FieldLookups \cup NicLookups \cup LabelLookups : ~Attempted(k)
        /\ DOMAIN vars = DOMAIN vars0 \cup metadataFuncs \cup {"instance"}

C1_Witness ==
    /\ pc = "done"
    /\ Failed("instance")
    /\ vars["instance"] = <<"h", "o", "s", "t">>
    /\ ~Has(vars, "zone")

(***************************************************************************)
(* C2. When OnGCE answers false, gceVars returns (false, no error), makes  *)
(* no other lookup and leaves the table exactly as it was passed in.       *)
(***************************************************************************)
C2_OffPlatformNoWork ==
    Failed("OnGCE") =>
        /\ pc = "done" /\ ~onGCE /\ err = NoErr
        /\ Len(calls) = 1
        /\ vars = vars0

C2_Witness ==
    /\ pc = "done"
    /\ Failed("OnGCE")
    /\ vars0 # EmptyTable
    /\ vars = vars0

(***************************************************************************)
(* C3. When OnGCE and the three identity lookups succeed and IsKubernetes  *)
(* is true, gceVars returns (true, no error); the only lookups made are    *)
(* the platform, identity and Kubernetes ones; the pass adds exactly       *)
(* project, project_id, instance_id and namespace, so a table passed in    *)
(* empty holds exactly these four keys.                                    *)
(***************************************************************************)
C3_KubernetesStopsAfterIdentity ==
    Succeeded("IsKubernetes") =>
        /\ pc = "done" /\ onGCE /\ err = NoErr
        /\ Succeeded("OnGCE") /\ \A k \in metadataFuncs : Succeeded(k)
        /\ \A n \in 1 .. Len(calls) :
              calls[n].name \in IdentityLookups \cup {"IsKubernetes", "KubernetesNamespace"}
        /\ DOMAIN vars = DOMAIN vars0 \cup metadataFuncs \cup {"namespace"}
        /\ vars0 = EmptyTable =>
              DOMAIN vars = {"project", "project_id", "instance_id", "namespace"}
        /\ \A k \in metadataFuncs : vars[k] = Answer(k)
        /\ vars["namespace"] = Answer("KubernetesNamespace")

C3_Witness ==
    /\ pc = "done"
    /\ Succeeded("IsKubernetes")
    /\ vars0 = EmptyTable
    /\ Cardinality(DOMAIN vars) = 4

MandatoryLookups == metadataFuncs \cup {"zone", "internal_ip", "external_ip"}

(***************************************************************************)
(* C4. Once OnGCE succeeded, a failed mandatory lookup (project,           *)
(* project_id, instance_id, zone, internal_ip, external_ip) makes gceVars  *)
(* return (true, error naming the field); the field's key is not in the    *)
(* table and the failed lookup is the last lookup of the pass.             *)
(***************************************************************************)
C4_MandatoryFailureAborts ==
    \A k \in MandatoryLookups :
        Failed(k) =>
            /\ pc = "done" /\ onGCE
            /\ err # NoErr /\ err = k
            /\ ~Has(vars, k)
            /\ LastCall = k
            /\ Succeeded("OnGCE")

C4_Witness ==
    /\ pc = "done"
    /\ Failed("internal_ip")
    /\ onGCE
    /\ err = "internal_ip"
    /\ Has(vars, "zone")

(***************************************************************************)
(* C5. A failed instance-template (machine-type) lookup stores 'undefined' *)
(* under instance_template (machine_type); it is never the error the pass  *)
(* returns, and the pass still derives region, probes every NIC slot and   *)
(* goes on to the label fetch.                                             *)
(***************************************************************************)
C5_DefaultedFieldsNeverAbort ==
    \A k \in {"instance_template", "machine_type"} :
        Failed(k) =>
            /\ Has(vars, k) /\ vars[k] = Undefined
            /\ err # k
            /\ pc # "done" => err = NoErr
            /\ pc = "done" =>
                  /\ err \in {NoErr, "compute service"}
                  /\ Has(vars, "region")
                  /\ Has(vars, "machine_type")
                  /\ \A n \in Slots : Attempted(NicIpPath(n))
                  /\ Attempted("compute.NewService")

C5_Witness ==
    /\ pc = "done"
    /\ Failed("instance_template")
    /\ Failed("machine_type")
    /\ err = NoErr
    /\ vars["instance_template"] = Undefined
    /\ vars["machine_type"] = Undefined

(***************************************************************************)
(* C6. After addGceNicInfo has run, every slot 0..maxNICs-1 has been       *)
(* probed exactly once, nic_<i>_ip is in the table if and only if slot i's *)
(* primary-IP lookup succeeded (if and only if the metadata server has a   *)
(* primary IP for slot i), whatever happened at lower slots, and no error  *)
(* has been produced.                                                      *)
(***************************************************************************)
C6_EverySlotProbed ==
    (pc = "newservice") =>
        /\ err = NoErr
        /\ \A n \in Slots :
            /\ Cardinality({ m \in 1 .. Len(calls) : calls[m].name = NicIpPath(n) }) = 1
            /\ Has(vars, NicIpKey(n)) <=> Succeeded(NicIpPath(n))
            /\ Has(vars, NicIpKey(n)) <=> nicMd[n] # "absent"
            /\ Has(vars, NicIpKey(n)) => vars[NicIpKey(n)] = Answer(NicIpPath(n))

C6_Witness ==
    /\ pc = "newservice"
    /\ nicMd[0] # "absent" /\ nicMd[1] = "absent" /\ nicMd[2] # "absent"
    /\ Has(vars, "nic_0_ip") /\ ~Has(vars, "nic_1_ip") /\ Has(vars, "nic_2_ip")

AllLabelKeys == { LabelKey(LabelNames[n]) : n \in 1 .. Len(LabelNames) }

(***************************************************************************)
(* C7. When the compute client was constructed, gceVars returns (true, no  *)
(* error) whether or not Instances.Get succeeded, and the label_* keys of  *)
(* the final table are exactly label_<k> -> v for the entries (k, v) of    *)
(* the returned label map: none when the call failed or the map is empty.  *)
(***************************************************************************)
C7_LabelsBestEffort ==
    (pc = "done" /\ Succeeded("compute.NewService")) =>
        /\ onGCE /\ err = NoErr
        /\ Attempted("Instances.Get")
        /\ DOMAIN vars \cap AllLabelKeys = { LabelKey(k) : k \in DOMAIN labels }
        /\ \A k \in DOMAIN labels : vars[LabelKey(k)] = labels[k]
        /\ Failed("Instances.Get") => DOMAIN vars \cap AllLabelKeys = {}

C7_Witness ==
    /\ pc = "done"
    /\ Succeeded("Instances.Get")
    /\ Has(vars, "label_env")
    /\ vars["label_env"] = <<"p", "r", "o", "d">>

DirectKeys == metadataFuncs \cup {"instance", "zone", "internal_ip", "external_ip"}

\* at an error return everything written so far is in the table as written
C8_WritesIntactAtError ==
    (pc = "done" /\ err # NoErr) =>
        /\ \A k \in DOMAIN vars0 : Has(vars, k) /\ vars[k] = vars0[k]
        /\ \A k \in DirectKeys : Succeeded(k) => Has(vars, k) /\ vars[k] = Answer(k)
        /\ \A n \in Slots : Succeeded(NicIpPath(n)) =>
              Has(vars, NicIpKey(n)) /\ vars[NicIpKey(n)] = Answer(NicIpPath(n))
        /\ Attempted("compute.NewService") => Has(vars, "region")

\* a step keeps every key of the table and its value
C8_KeysOnlyAdded ==
    \A k \in DOMAIN vars : k \in DOMAIN vars' /\ vars'[k] = vars[k]

(***************************************************************************)
(* C8. No step removes a key from the table or changes a value already in  *)
(* it; so when gceVars returns an error, the table passed in and every     *)
(* variable written earlier in the pass are still there as written.        *)
(***************************************************************************)
C8_NoRollback == [] C8_WritesIntactAtError /\ [][C8_KeysOnlyAdded]_allVars

C8_Witness ==
    /\ pc = "done"
    /\ err = "compute service"
    /\ Has(vars, "nic_2_ip")
    /\ Has(vars, "region")
    /\ vars0 # EmptyTable

Hyphens(z) == { n \in 1 .. Len(z) : z[n] = "-" }

\* z up to, not including, its last hyphen
BeforeLastHyphen(z) ==
    IF Hyphens(z) = {} THEN <<>>
    ELSE SubSeq(z, 1, (CHOOSE n \in Hyphens(z) : \A m \in Hyphens(z) : m <= n) - 1)

(***************************************************************************)
(* C9. Whenever 'region' is in the table, 'zone' is too, and region is the *)
(* stored zone with its last hyphen-delimited token removed: everything    *)
(* before the last hyphen, or the empty string when zone has no hyphen.    *)
(***************************************************************************)
C9_RegionFromZone ==
    Has(vars, "region") =>
        /\ Has(vars, "zone")
        /\ vars["zone"] = Answer("zone")
        /\ vars["region"] = BeforeLastHyphen(vars["zone"])
        /\ vars["zone"] = <<"u","s","-","c","e","n","t","r","a","l","1","-","a">>
              => vars["region"] = <<"u","s","-","c","e","n","t","r","a","l","1">>
        /\ vars["zone"] = <<"a","-","b","-","c","-","d">>
              => vars["region"] = <<"a","-","b","-","c">>
        /\ vars["zone"] = <<"z","o","n","e">> => vars["region"] = <<>>

C9_Witness ==
    /\ pc = "done"
    /\ Has(vars, "region")
    /\ vars["zone"] = <<"a","-","b","-","c","-","d">>
    /\ vars["region"] = <<"a","-","b","-","c">>

\* t is raw without its leading and trailing white space
IsTrimOf(t, raw) ==
    /\ t # <<>> => ~IsSpace(t[1]) /\ ~IsSpace(t[Len(t)])
    /\ \E lo \in 1 .. Len(raw) + 1, hi \in 0 .. Len(raw) :
          /\ t = SubSeq(raw, lo, hi)
          /\ \A n \in 1 .. Len(raw) : (n < lo \/ n > hi) => IsSpace(raw[n])

(***************************************************************************)
(* C10. The IPv6 lookup of a slot directly follows a successful primary-IP *)
(* lookup of that slot; internal_ipv6_ip is in the table after enumeration *)
(* if and only if both lookups of slot 0 succeeded; its value is the       *)
(* whitespace-trimmed IPv6 answer of slot 0, the same as the value under   *)
(* 'instance/network-interfaces/0/ipv6s'; IPv6 answers of other slots do   *)
(* not write or change it.                                                 *)
(***************************************************************************)
C10_Ipv6Alias ==
    /\ \A n \in 1 .. Len(calls) : \A s \in Slots :
          calls[n].name = NicIpv6Path(s) =>
              n > 1 /\ calls[n - 1].name = NicIpPath(s) /\ calls[n - 1].ok
    /\ Has(vars, "internal_ipv6_ip") =>
          /\ Succeeded(NicIpPath(0)) /\ Succeeded(NicIpv6Path(0))
          /\ IsTrimOf(vars["internal_ipv6_ip"], Answer(NicIpv6Path(0)))
          /\ vars["internal_ipv6_ip"] = vars[NicIpv6Path(0)]
    /\ (Succeeded(NicIpPath(0)) /\ Succeeded(NicIpv6Path(0))) => Has(vars, "internal_ipv6_ip")
    /\ pc = "newservice" => (Has(vars, "internal_ipv6_ip") <=> nicMd[0] = "dual")

C10_Witness ==
    /\ pc = "newservice"
    /\ Has(vars, "internal_ipv6_ip")
    /\ vars["internal_ipv6_ip"] = <<"f", "e", ":", ":", "1">>
    /\ Answer(NicIpv6Path(0)) # vars["internal_ipv6_ip"]
    /\ Succeeded(NicIpv6Path(3))

====
